---- MODULE Spec2Model ----
(***************************************************************************)
(* Host side of the GPU compute example (src/src/main.rs).                 *)
(*                                                                         *)
(* Three specifications:                                                     *)
(*   Spec     - one run of main, or of the public execute_kernel called    *)
(*              directly, together with the device that executes the       *)
(*              submitted work and resolves the futures the host awaits.   *)
(*              Buffers are modelled by their sizes in bytes and vectors   *)
(*              by their element size and length: the contents are         *)
(*              produced by the compute shader, which is not host code.    *)
(*   LiveSpec - Spec with the fairness of the host thread and the device.  *)
(*   ConvSpec - the two byte-reinterpretation helpers applied to concrete  *)
(*              slices.                                                    *)
(*                                                                         *)
(* Calls into the GPU library whose failure the source does not handle     *)
(* (buffer, pipeline and bind group creation, submit, get_mapped_range)    *)
(* are modelled as succeeding; the failures the source handles             *)
(* (expect on the adapter and the device, if let Ok on the map future)     *)
(* are nondeterministic.                                                   *)
(***************************************************************************)
EXTENDS Integers, Sequences, FiniteSets, TLC

\* ---------------------------------------------------------------- bounds
\* Inputs of execute_kernel hold up to MaxBlocks whole groups of 64 elements.
MaxBlocks == 2
\* Slices handed to the conversion helpers hold up to MaxArr elements.
MaxArr == 3
\* Raw byte slices handed to bytes_to_opaque_array hold up to MaxRaw bytes.
MaxRaw == 4
\* The embedded kernel blob, and a descriptor handed to execute_kernel, hold up
\* to MaxKernelWords 32-bit words.
MaxKernelWords == 2

\* ------------------------------------------------------- program constants
\* cpass.dispatch(input.len() as u32 / 64, 1, 1)
WorkgroupDivisor == 64
\* the width of the `as u32` cast
U32Bits == 32
\* (0..64) in main
MainLen == 64
\* size_of::<shared::Ray>(): two Vec4 of four f32
SizeOfRay == 32
\* size_of::<shared::TestVec>(): three u32
SizeOfTestVec == 12
\* size_of::<u32>() ("Fetch result as u32 vec")
SizeOfU32 == 4

\* KERNEL.chunks(4)
ChunkSize == 4

\* size_of::<usize>() in bits (BufferAddress is u64 as well)
UsizeBits == 64

\* ------------------------------------------------- machine integers (usize)
\* A usize is held as limbs of 16 bits, least significant first, so
\* that lengths and byte counts beyond 2^31 keep their exact value and the
\* `as u32` cast keeps its width.
Base == 2 ^ 16
Limbs == UsizeBits \div 16
U32Limbs == U32Bits \div 16

\* The usize with value n, for 0 <= n < 2^31.
U(n) == [ i \in 1..Limbs |-> CASE i = 1 -> n % Base
                               [] i = 2 -> n \div Base
                               [] OTHER -> 0 ]

\* The usize with value 2^32 + n, for 0 <= n < 2^31.
Above32(n) == [ U(n) EXCEPT ![U32Limbs + 1] = 1 ]

\* The value of a usize below 2^31.
ToInt(a) == a[1] + a[2] * Base

FitsInt(a) == a[2] < Base \div 2 /\ \A i \in 3..Limbs : a[i] = 0

FitsU32(a) == \A i \in (U32Limbs + 1)..Limbs : a[i] = 0

RECURSIVE MulCarry(_, _, _, _)
\* Limbs i.. of a * k, with carry c coming in; the carry out of the top limb
\* is dropped (wrapping multiplication).
MulCarry(a, k, i, c) ==
  IF i > Limbs THEN << >>
  ELSE << (a[i] * k + c) % Base >> \o MulCarry(a, k, i + 1, (a[i] * k + c) \div Base)

\* a * k for a small k (usize multiplication).
MulSmall(a, k) == MulCarry(a, k, 1, 0)

RECURSIVE DivRem(_, _, _, _)
\* Long division of limbs i..1 of a by d, with remainder r coming in from above:
\* the quotient limbs, least significant first.
DivRem(a, d, i, r) ==
  IF i < 1 THEN << >>
  ELSE DivRem(a, d, i - 1, (r * Base + a[i]) % d) \o << (r * Base + a[i]) \div d >>

\* a / d for a small d > 0 (usize division).
DivSmall(a, d) == DivRem(a, d, Limbs, 0)

\* a as u32, widened again: the limbs above 32 bits are dropped.
AsU32(a) == [ i \in 1..Limbs |-> IF i <= U32Limbs THEN a[i] ELSE 0 ]

RECURSIVE LeqFrom(_, _, _)
LeqFrom(a, b, i) ==
  IF i < 1 THEN TRUE
  ELSE IF a[i] # b[i] THEN a[i] < b[i]
  ELSE LeqFrom(a, b, i - 1)

\* a <= b
Leq(a, b) == LeqFrom(a, b, Limbs)

Zero == U(0)

\* Element sizes T may have: (), u8, u32, TestVec, Ray.
ElemSizes == {0, 1, SizeOfU32, SizeOfTestVec, SizeOfRay}

\* Remainders of the input length modulo 64 that are tried.
Remainders == {0, 1, WorkgroupDivisor - 1}

SmallLens == { b * WorkgroupDivisor + r : b \in 0..MaxBlocks, r \in Remainders }

\* Lengths that do and do not fit 32 bits.
InputLens == { U(n) : n \in SmallLens } \cup { Above32(n) : n \in SmallLens }

Inputs == [ size : ElemSizes, len : InputLens ]

\* let data = (0..64).map(..Ray..).collect()
MainInput == [ size |-> SizeOfRay, len |-> U(MainLen) ]

NoInput == [ size |-> 0, len |-> Zero ]

\* The lengths the blob read by include_bytes! may have, whole words or not.
KernelLens == 0..(ChunkSize * MaxKernelWords)

NoShader == [ source |-> "none", words |-> 0 ]

\* The descriptors a direct caller may hand to execute_kernel.
Shaders == [ source : { "SpirV" }, words : 0..MaxKernelWords ]

\* ------------------------------------------------------------ pure helpers
\* size_of::<T>() * arr.len()
opaque_array_to_bytes_len(size, n) == MulSmall(n, size)

\* arr.len() / size_of::<T>(); the division panics for a zero-sized T, which
\* the callers of this operator test first.
bytes_to_opaque_array_len(size, nbytes) == DivSmall(nbytes, size)

\* Mutant: the length is divided without the cast to u32.
DispatchX_NoCast(n) == DivSmall(n, WorkgroupDivisor)

\* input.len() as u32 / 64
DispatchX(n) == DivSmall(AsU32(n), WorkgroupDivisor)

\* ------------------------------------------------------------------ state
VARIABLES
  caller,            \* "main": the binary; "lib": execute_kernel called directly
  KERNEL,            \* the length in bytes of the embedded kernel blob
  pc,                \* the host's position
  input,             \* the Vec<T> given to execute_kernel: element size, length
  shader_binary,     \* the descriptor: [source: "none" | "SpirV", words]
  live,              \* the GPU objects the host currently holds
  fut,               \* the future being awaited: "none" | "pending" | "ok" | "err"
  suspended,         \* execute_kernel returned Pending to the executor
  suspensions,       \* the await points at which it did so, in order
  src_len,           \* src.len()
  readback_buffer,   \* [size, map, filled]
  storage_buffer,    \* [size]
  encoder,           \* the commands recorded so far
  submitted,         \* the command buffers given to the queue
  executed,          \* how many of them the device has run
  workgroups,        \* the dispatches the device ran: [x, y, z] each
  polls,             \* completed device.poll calls
  data,              \* the mapped view: [state, len]
  result,            \* the owned vector: [some, len]
  ret,               \* "running" | "abort" | "None" | "Some"
  stdout,            \* lines printed
  log,               \* the steps performed, in order
  conv               \* the conversion helpers' state (ConvSpec)

kvars == << caller, KERNEL, pc, input, shader_binary, live, fut, suspended, suspensions,
            src_len, readback_buffer, storage_buffer, encoder, submitted,
            executed, workgroups, polls, data, result, ret, stdout, log >>

vars == << caller, KERNEL, pc, input, shader_binary, live, fut, suspended, suspensions,
           src_len, readback_buffer, storage_buffer, encoder, submitted,
           executed, workgroups, polls, data, result, ret, stdout, log, conv >>

NoBuffer == [ size |-> Zero, map |-> "none", filled |-> Zero ]
NoData == [ state |-> "none", len |-> Zero ]
NoResult == [ some |-> FALSE, len |-> Zero ]
ConvIdle == [ stage |-> "idle" ]

AwaitPcs == { "await_adapter", "await_device", "await_map" }

KInit ==
  /\ caller \in { "main", "lib" }
  /\ pc = IF caller = "main" THEN "main_load" ELSE "instance_new"
  /\ input \in IF caller = "main" THEN { NoInput } ELSE Inputs
  /\ KERNEL \in IF caller = "main" THEN KernelLens ELSE { 0 }
  /\ shader_binary \in IF caller = "main" THEN { NoShader } ELSE Shaders
  /\ live = {}
  /\ fut = "none"
  /\ suspended = FALSE
  /\ suspensions = << >>
  /\ src_len = Zero
  /\ readback_buffer = NoBuffer
  /\ storage_buffer = NoBuffer
  /\ encoder = << >>
  /\ submitted = << >>
  /\ executed = 0
  /\ workgroups = << >>
  /\ polls = 0
  /\ data = NoData
  /\ result = NoResult
  /\ ret = "running"
  /\ stdout = << >>
  /\ log = << >>

Init == KInit /\ conv = ConvIdle

\* A host step: the host is at `from`, is not suspended, and moves to `to`.
At(from) == pc = from /\ ~suspended

futv == << fut, suspended, suspensions >>
gpuv == << readback_buffer, storage_buffer, encoder, submitted, executed,
           workgroups, polls, data, result >>
hostv == << caller, KERNEL, input, shader_binary, src_len, ret, stdout >>

\* A host step from `from` to `to`, recorded as `tag`.
Step(from, to, tag) ==
  /\ At(from)
  /\ pc' = to
  /\ log' = Append(log, tag)

gpunodata == << readback_buffer, storage_buffer, encoder, submitted, executed,
               workgroups, polls, result >>

\* A panic with message msg: the stack unwinds, which drops the locals (the GPU
\* objects held, and the mapped view if there is one; unmap is not called),
\* and the process ends with nothing returned to the caller.
Panic(msg) ==
  /\ pc' = "aborted"
  /\ ret' = "abort"
  /\ log' = Append(log, msg)
  /\ live' = {}
  /\ data' = IF data.state = "live" THEN [ data EXCEPT !.state = "dropped" ] ELSE data

UnwrapPanic == "panic: called Result::unwrap() on an Err value: TryFromSliceError(())"

AdapterPanic == "panic: Failed to find an appropriate adapter"
DevicePanic == "panic: Failed to create device"
DividePanic == "panic: attempt to divide by zero"

\* --------------------------------------------------------------- fn main
\* let shader_binary = wgpu::ShaderModuleDescriptor { .. SpirV(KERNEL
\* .chunks(4).map(|x| u32::from_ne_bytes(x.try_into().unwrap())).collect()) .. }:
\* the unwrap panics on a last chunk of fewer than 4 bytes.
MainLoadKernel ==
  /\ At("main_load")
  /\ IF KERNEL % ChunkSize = 0
       THEN /\ pc' = "main_data"
            /\ log' = Append(log, "load_kernel")
            /\ shader_binary' = [ source |-> "SpirV", words |-> KERNEL \div ChunkSize ]
            /\ UNCHANGED << ret, live, data >>
       ELSE /\ Panic(UnwrapPanic)
            /\ UNCHANGED shader_binary
  /\ UNCHANGED << caller, KERNEL, input, src_len, stdout, futv, gpunodata, conv >>

\* let data = (0..64).map(..).collect(); block_on(execute_kernel(.., data))
MainBuildData ==
  /\ Step("main_data", "instance_new", "build_data")
  /\ input' = MainInput
  /\ UNCHANGED << caller, KERNEL, shader_binary, src_len, ret, stdout, live, futv, gpuv, conv >>

\* Mutant: the result is printed, and then the error line as well.
MainPrint_Both ==
  /\ At("main_match")
  /\ pc' = "exited"
  /\ stdout' = (IF ret = "Some"
                  THEN << [ text |-> "Execution result: ", elems |-> result.len ] >>
                  ELSE << >>)
               \o << [ text |-> "Error executing kernel", elems |-> Zero ] >>
  /\ UNCHANGED << caller, KERNEL, input, shader_binary, src_len, ret, log, live, futv, gpuv, conv >>

\* match .. { Some(result) => println!(..), None => println!(..) }
MainPrint ==
  /\ At("main_match")
  /\ pc' = "exited"
  /\ stdout' = Append(stdout,
                       IF ret = "Some"
                         THEN [ text |-> "Execution result: ", elems |-> result.len ]
                         ELSE [ text |-> "Error executing kernel", elems |-> Zero ])
  /\ UNCHANGED << caller, KERNEL, input, shader_binary, src_len, ret, log, live, futv, gpuv, conv >>

\* ------------------------------------------------- async fn execute_kernel
\* let instance = wgpu::Instance::new(..)
InstanceNew ==
  /\ Step("instance_new", "request_adapter", "instance_new")
  /\ live' = live \cup { "instance" }
  /\ UNCHANGED << hostv, futv, gpuv, conv >>

\* instance.request_adapter(..): the future may be ready at once, with an
\* adapter or without one, or pending.
RequestAdapter ==
  /\ Step("request_adapter", "await_adapter", "request_adapter")
  /\ fut' \in { "pending", "ok", "err" }
  /\ UNCHANGED << hostv, live, suspended, suspensions, gpuv, conv >>

\* Mutant: the host yields wherever a future is pending, not only at an await.
Suspend_Anywhere ==
  /\ ~suspended
  /\ fut = "pending"
  /\ suspended' = TRUE
  /\ suspensions' = Append(suspensions, pc)
  /\ UNCHANGED << pc, log, hostv, live, fut, gpuv, conv >>

\* .await on a future that is not ready: execute_kernel yields to the executor.
Suspend ==
  /\ pc \in AwaitPcs
  /\ ~suspended
  /\ fut = "pending"
  /\ suspended' = TRUE
  /\ suspensions' = Append(suspensions, pc)
  /\ UNCHANGED << pc, log, hostv, live, fut, gpuv, conv >>

\* The executor polls execute_kernel again once the future was resolved.
Wake ==
  /\ suspended
  /\ fut # "pending"
  /\ suspended' = FALSE
  /\ UNCHANGED << pc, log, hostv, live, fut, suspensions, gpuv, conv >>

\* The backend resolves a pending adapter or device request.
ResolveSetup ==
  /\ pc \in { "await_adapter", "await_device" }
  /\ fut = "pending"
  /\ fut' \in { "ok", "err" }
  /\ UNCHANGED << pc, log, hostv, live, suspended, suspensions, gpuv, conv >>

\* .await.expect("Failed to find an appropriate adapter")
ExpectAdapter ==
  /\ At("await_adapter")
  /\ fut \in { "ok", "err" }
  /\ fut' = "none"
  /\ IF fut = "ok"
       THEN /\ pc' = "request_device"
            /\ live' = live \cup { "adapter" }
            /\ log' = Append(log, "adapter")
            /\ ret' = ret
            /\ data' = data
       ELSE Panic(AdapterPanic)
  /\ UNCHANGED << caller, KERNEL, input, shader_binary, src_len, stdout, suspended,
                  suspensions, gpunodata, conv >>

\* adapter.request_device(..)
RequestDevice ==
  /\ Step("request_device", "await_device", "request_device")
  /\ fut' \in { "pending", "ok", "err" }
  /\ UNCHANGED << hostv, live, suspended, suspensions, gpuv, conv >>

\* Mutant: a failed request_device is not checked.
ExpectDevice_Unchecked ==
  /\ At("await_device")
  /\ fut \in { "ok", "err" }
  /\ fut' = "none"
  /\ pc' = "drop_instance"
  /\ live' = live \cup { "device", "queue" }
  /\ log' = Append(log, "device")
  /\ UNCHANGED << hostv, suspended, suspensions, gpuv, conv >>

\* .await.expect("Failed to create device")
ExpectDevice ==
  /\ At("await_device")
  /\ fut \in { "ok", "err" }
  /\ fut' = "none"
  /\ IF fut = "ok"
       THEN /\ pc' = "drop_instance"
            /\ live' = live \cup { "device", "queue" }
            /\ log' = Append(log, "device")
            /\ ret' = ret
            /\ data' = data
       ELSE Panic(DevicePanic)
  /\ UNCHANGED << caller, KERNEL, input, shader_binary, src_len, stdout, suspended,
                  suspensions, gpunodata, conv >>

\* drop(instance); drop(adapter);
DropInstanceAdapter ==
  /\ Step("drop_instance", "create_shader_module", "drop_instance")
  /\ live' = live \ { "instance", "adapter" }
  /\ UNCHANGED << hostv, futv, gpuv, conv >>

\* let module = device.create_shader_module(&shader_binary)
CreateShaderModule ==
  /\ Step("create_shader_module", "src", "shader_module")
  /\ live' = live \cup { "module" }
  /\ UNCHANGED << hostv, futv, gpuv, conv >>

\* let src = opaque_array_to_bytes(input.as_slice())
SrcBytes ==
  /\ Step("src", "bind_group_layout", "src")
  /\ src_len' = opaque_array_to_bytes_len(input.size, input.len)
  /\ UNCHANGED << caller, KERNEL, input, shader_binary, ret, stdout, live, futv, gpuv, conv >>

\* device.create_bind_group_layout(..)
CreateBindGroupLayout ==
  /\ Step("bind_group_layout", "pipeline_layout", "bind_group_layout")
  /\ live' = live \cup { "bind_group_layout" }
  /\ UNCHANGED << hostv, futv, gpuv, conv >>

\* device.create_pipeline_layout(..)
CreatePipelineLayout ==
  /\ Step("pipeline_layout", "compute_pipeline", "pipeline_layout")
  /\ live' = live \cup { "pipeline_layout" }
  /\ UNCHANGED << hostv, futv, gpuv, conv >>

\* device.create_compute_pipeline(..)
CreateComputePipeline ==
  /\ Step("compute_pipeline", "readback_buffer", "compute_pipeline")
  /\ live' = live \cup { "compute_pipeline" }
  /\ UNCHANGED << hostv, futv, gpuv, conv >>

\* Mutant: the storage buffer is not created.
CreateReadbackBuffer_SkipStorage ==
  /\ Step("readback_buffer", "bind_group", "readback_buffer")
  /\ live' = live \cup { "readback_buffer" }
  /\ readback_buffer' = [ size |-> src_len, map |-> "unmapped", filled |-> Zero ]
  /\ UNCHANGED << hostv, futv, storage_buffer, encoder, submitted, executed,
                  workgroups, polls, data, result, conv >>

\* Mutant: the readback buffer is sized in elements, not bytes.
CreateReadbackBuffer_InElements ==
  /\ Step("readback_buffer", "storage_buffer", "readback_buffer")
  /\ live' = live \cup { "readback_buffer" }
  /\ readback_buffer' = [ size |-> input.len, map |-> "unmapped", filled |-> Zero ]
  /\ UNCHANGED << hostv, futv, storage_buffer, encoder, submitted, executed,
                  workgroups, polls, data, result, conv >>

\* device.create_buffer(size: src.len(), MAP_READ | COPY_DST, unmapped)
CreateReadbackBuffer ==
  /\ Step("readback_buffer", "storage_buffer", "readback_buffer")
  /\ live' = live \cup { "readback_buffer" }
  /\ readback_buffer' = [ size |-> src_len, map |-> "unmapped", filled |-> Zero ]
  /\ UNCHANGED << hostv, futv, storage_buffer, encoder, submitted, executed,
                  workgroups, polls, data, result, conv >>

\* device.create_buffer_init(contents: &src, STORAGE | COPY_DST | COPY_SRC)
CreateStorageBuffer ==
  /\ Step("storage_buffer", "bind_group", "storage_buffer")
  /\ live' = live \cup { "storage_buffer" }
  /\ storage_buffer' = [ size |-> src_len, map |-> "unmapped", filled |-> src_len ]
  /\ UNCHANGED << hostv, futv, readback_buffer, encoder, submitted, executed,
                  workgroups, polls, data, result, conv >>

\* device.create_bind_group(.. storage_buffer.as_entire_binding() ..)
CreateBindGroup ==
  /\ Step("bind_group", "encoder", "bind_group")
  /\ live' = live \cup { "bind_group" }
  /\ UNCHANGED << hostv, futv, gpuv, conv >>

\* device.create_command_encoder(..)
CreateEncoder ==
  /\ Step("encoder", "dispatch", "encoder")
  /\ live' = live \cup { "encoder" }
  /\ encoder' = << >>
  /\ UNCHANGED << hostv, futv, readback_buffer, storage_buffer, submitted,
                  executed, workgroups, polls, data, result, conv >>

\* { begin_compute_pass; set_bind_group; set_pipeline; dispatch(len as u32 / 64, 1, 1) }
Dispatch ==
  /\ Step("dispatch", "copy", "dispatch")
  /\ encoder' = Append(encoder, [ op |-> "dispatch", x |-> DispatchX(input.len),
                                  y |-> 1, z |-> 1,
                                  src_offset |-> 0, dst_offset |-> 0, size |-> Zero ])
  /\ UNCHANGED << hostv, live, futv, readback_buffer, storage_buffer, submitted,
                  executed, workgroups, polls, data, result, conv >>

\* encoder.copy_buffer_to_buffer(&storage_buffer, 0, &readback_buffer, 0, src.len())
CopyBufferToBuffer ==
  /\ Step("copy", "submit", "copy")
  /\ encoder' = Append(encoder, [ op |-> "copy", x |-> Zero, y |-> 0, z |-> 0,
                                  src_offset |-> 0, dst_offset |-> 0,
                                  size |-> src_len ])
  /\ UNCHANGED << hostv, live, futv, readback_buffer, storage_buffer, submitted,
                  executed, workgroups, polls, data, result, conv >>

\* queue.submit(Some(encoder.finish()))
Submit ==
  /\ Step("submit", "map_async", "submit")
  /\ submitted' = Append(submitted, encoder)
  /\ live' = live \ { "encoder" }
  /\ UNCHANGED << hostv, futv, readback_buffer, storage_buffer, encoder,
                  executed, workgroups, polls, data, result, conv >>

\* Mutant: the map future is awaited without polling the device.
MapAsync_NoPoll ==
  /\ Step("map_async", "await_map", "map_async")
  /\ readback_buffer' = [ readback_buffer EXCEPT !.map = "pending" ]
  /\ fut' = "pending"
  /\ UNCHANGED << hostv, live, suspended, suspensions, storage_buffer, encoder,
                  submitted, executed, workgroups, polls, data, result, conv >>

\* let buffer_slice = readback_buffer.slice(..);
\* let buffer_future = buffer_slice.map_async(wgpu::MapMode::Read);
MapAsync ==
  /\ Step("map_async", "poll", "map_async")
  /\ readback_buffer' = [ readback_buffer EXCEPT !.map = "pending" ]
  /\ fut' = "pending"
  /\ UNCHANGED << hostv, live, suspended, suspensions, storage_buffer, encoder,
                  submitted, executed, workgroups, polls, data, result, conv >>
\* ------------------------------------------------------------- the device
RECURSIVE DispatchesOf(_)
\* The workgroup counts of the dispatches of a command buffer, in order.
DispatchesOf(cb) ==
  IF cb = << >> THEN << >>
  ELSE (IF Head(cb).op = "dispatch"
          THEN << [ x |-> Head(cb).x, y |-> Head(cb).y, z |-> Head(cb).z ] >>
          ELSE << >>)
       \o DispatchesOf(Tail(cb))

RECURSIVE CopiedBytes(_, _)
\* The bytes of the readback buffer written once a command buffer has run,
\* `filled` of them having been written before: each copy writes from offset 0.
CopiedBytes(cb, filled) ==
  IF cb = << >> THEN filled
  ELSE CopiedBytes(Tail(cb),
                   IF Head(cb).op = "copy" /\ Leq(filled, Head(cb).size)
                     THEN Head(cb).size ELSE filled)

\* The device runs the next submitted command buffer: the dispatch, then the copy.
DeviceExecute ==
  /\ executed < Len(submitted)
  /\ executed' = executed + 1
  /\ workgroups' = workgroups \o DispatchesOf(submitted[executed + 1])
  /\ readback_buffer' = [ readback_buffer EXCEPT
                            !.filled = CopiedBytes(submitted[executed + 1], @) ]
  /\ UNCHANGED << pc, log, hostv, live, futv, storage_buffer, encoder, submitted,
                  polls, data, result, conv >>

\* device.poll(wgpu::Maintain::Wait): returns once the submitted work is done;
\* the map request is resolved during the poll, or is left to the backend.
Poll ==
  /\ Step("poll", "await_map", "poll")
  /\ executed = Len(submitted)
  /\ polls' = polls + 1
  /\ fut' \in { "pending", "ok", "err" }
  /\ readback_buffer' = [ readback_buffer EXCEPT
                            !.map = CASE fut' = "ok" -> "mapped"
                                      [] fut' = "err" -> "failed"
                                      [] OTHER -> @ ]
  /\ UNCHANGED << hostv, live, suspended, suspensions, storage_buffer, encoder,
                  submitted, executed, workgroups, data, result, conv >>

\* The backend resolves a map request the poll left pending.
ResolveMap ==
  /\ pc = "await_map"
  /\ fut = "pending"
  /\ executed = Len(submitted)
  /\ fut' \in { "ok", "err" }
  /\ readback_buffer' = [ readback_buffer EXCEPT
                            !.map = IF fut' = "ok" THEN "mapped" ELSE "failed" ]
  /\ UNCHANGED << pc, log, hostv, live, suspended, suspensions, storage_buffer,
                  encoder, submitted, executed, workgroups, polls, data, result, conv >>

\* Mutant: a failed map request is unwrapped instead of matched.
AwaitMap_PanicOnErr ==
  /\ At("await_map")
  /\ fut \in { "ok", "err" }
  /\ fut' = "none"
  /\ IF fut = "ok"
       THEN /\ pc' = "get_mapped_range"
            /\ log' = Append(log, "await_map")
            /\ UNCHANGED << ret, live, data >>
       ELSE Panic("panic: map failed")
  /\ UNCHANGED << caller, KERNEL, input, shader_binary, src_len, stdout, suspended,
                  suspensions, gpunodata, conv >>

\* Mutant: the result of the map request is ignored.
AwaitMap_IgnoreErr ==
  /\ At("await_map")
  /\ fut \in { "ok", "err" }
  /\ pc' = "get_mapped_range"
  /\ log' = Append(log, "await_map")
  /\ fut' = "none"
  /\ UNCHANGED << hostv, live, suspended, suspensions, gpuv, conv >>

\* ------------------------------------------- execute_kernel, the readback
\* if let Ok(_) = buffer_future.await { .. } else { .. }
AwaitMap ==
  /\ At("await_map")
  /\ fut \in { "ok", "err" }
  /\ pc' = IF fut = "ok" THEN "get_mapped_range" ELSE "return_none"
  /\ log' = Append(log, "await_map")
  /\ fut' = "none"
  /\ UNCHANGED << hostv, live, suspended, suspensions, gpuv, conv >>

\* let data = buffer_slice.get_mapped_range()
GetMappedRange ==
  /\ Step("get_mapped_range", "to_owned", "get_mapped_range")
  /\ data' = [ state |-> "live", len |-> readback_buffer.size ]
  /\ UNCHANGED << hostv, live, futv, readback_buffer, storage_buffer, encoder,
                  submitted, executed, workgroups, polls, result, conv >>

\* let result = bytes_to_opaque_array(&data).to_owned(); the division by
\* size_of::<T>() panics for a zero-sized T.
ToOwned ==
  /\ At("to_owned")
  /\ IF input.size = 0
       THEN /\ Panic(DividePanic)
            /\ UNCHANGED result
       ELSE /\ pc' = "drop_data"
            /\ log' = Append(log, "to_owned")
            /\ result' = [ some |-> TRUE,
                           len |-> bytes_to_opaque_array_len(input.size, data.len) ]
            /\ UNCHANGED << ret, live, data >>
  /\ UNCHANGED << caller, KERNEL, input, shader_binary, src_len, stdout, futv,
                  readback_buffer, storage_buffer, encoder, submitted, executed,
                  workgroups, polls, conv >>

\* drop(data)
DropData ==
  /\ Step("drop_data", "unmap", "drop_data")
  /\ data' = [ data EXCEPT !.state = "dropped" ]
  /\ UNCHANGED << hostv, live, futv, readback_buffer, storage_buffer, encoder,
                  submitted, executed, workgroups, polls, result, conv >>

\* readback_buffer.unmap()
Unmap ==
  /\ Step("unmap", "return_some", "unmap")
  /\ readback_buffer' = [ readback_buffer EXCEPT !.map = "unmapped" ]
  /\ UNCHANGED << hostv, live, futv, storage_buffer, encoder, submitted, executed,
                  workgroups, polls, data, result, conv >>

\* Where a returning execute_kernel goes: main's match, or the direct caller.
AfterReturn == IF caller = "main" THEN "main_match" ELSE "returned"

\* Some(result)
ReturnSome ==
  /\ Step("return_some", AfterReturn, "return")
  /\ ret' = "Some"
  /\ live' = {}
  /\ UNCHANGED << caller, KERNEL, input, shader_binary, src_len, stdout, futv, gpuv, conv >>

\* None
ReturnNone ==
  /\ Step("return_none", AfterReturn, "return")
  /\ ret' = "None"
  /\ live' = {}
  /\ UNCHANGED << caller, KERNEL, input, shader_binary, src_len, stdout, futv, gpuv, conv >>

\* ---------------------------------------------------------- specification
Host ==
  \/ MainLoadKernel
  \/ MainBuildData
  \/ InstanceNew
  \/ RequestAdapter
  \/ Suspend
  \/ Wake
  \/ ExpectAdapter
  \/ RequestDevice
  \/ ExpectDevice
  \/ DropInstanceAdapter
  \/ CreateShaderModule
  \/ SrcBytes
  \/ CreateBindGroupLayout
  \/ CreatePipelineLayout
  \/ CreateComputePipeline
  \/ CreateReadbackBuffer
  \/ CreateStorageBuffer
  \/ CreateBindGroup
  \/ CreateEncoder
  \/ Dispatch
  \/ CopyBufferToBuffer
  \/ Submit
  \/ MapAsync
  \/ Poll
  \/ AwaitMap
  \/ GetMappedRange
  \/ ToOwned
  \/ DropData
  \/ Unmap
  \/ ReturnSome
  \/ ReturnNone
  \/ MainPrint

Device ==
  \/ DeviceExecute
  \/ ResolveSetup
  \/ ResolveMap

Next == Host \/ Device

Spec == Init /\ [][Next]_vars

\* The host thread keeps running and the device completes what it was given.
LiveSpec == Init /\ [][Next]_vars /\ WF_vars(Host) /\ WF_vars(Device)
\* ------------------------------------------------ the conversion helpers
\* A value of T is an integer below 256^size; its size bytes in memory are its
\* base-256 digits in the byte order of the target.
ConvSizes == { 0, 1, 2, 3 }
Endians == { "little", "big" }

RECURSIVE Pattern(_)
\* The value whose digits are 1, 2, .. size, least significant first.
Pattern(size) == IF size = 0 THEN 0 ELSE Pattern(size - 1) + size * 256 ^ (size - 1)

ElemValues(size) == { 0, 1 % (256 ^ size), 256 ^ size - 1, Pattern(size) }

ByteValues == { 0, 1, 255 }

\* Byte j (from 0) of the memory of value v.
ByteOf(v, size, j, endian) ==
  IF endian = "little" THEN (v \div 256 ^ j) % 256
  ELSE (v \div 256 ^ (size - 1 - j)) % 256

RECURSIVE ValueOf(_, _)
\* The value whose memory is the bytes bs.
ValueOf(bs, endian) ==
  IF bs = << >> THEN 0
  ELSE IF endian = "little" THEN Head(bs) + 256 * ValueOf(Tail(bs), endian)
  ELSE Head(bs) * 256 ^ (Len(bs) - 1) + ValueOf(Tail(bs), endian)

\* fn opaque_array_to_bytes<T>(arr: &[T]) -> &[u8]: the memory of arr, seen as
\* size_of::<T>() * arr.len() bytes.
opaque_array_to_bytes(size, endian, arr) ==
  [ i \in 1..ToInt(opaque_array_to_bytes_len(size, U(Len(arr)))) |->
      ByteOf(arr[(i - 1) \div size + 1], size, (i - 1) % size, endian) ]

\* Mutant: element k is read at byte offset k, not at k * size_of::<T>().
bytes_to_opaque_array_values_ByteStride(size, endian, bytes) ==
  [ k \in 1..ToInt(bytes_to_opaque_array_len(size, U(Len(bytes)))) |->
      ValueOf(SubSeq(bytes, k, k + size - 1), endian) ]

\* The memory of arr, seen as arr.len() / size_of::<T>() values of T.
bytes_to_opaque_array_values(size, endian, bytes) ==
  [ k \in 1..ToInt(bytes_to_opaque_array_len(size, U(Len(bytes)))) |->
      ValueOf(SubSeq(bytes, (k - 1) * size + 1, k * size), endian) ]

\* The alignments a T of the given size may have.
Aligns(size) == IF size = 0 THEN { 1 } ELSE { a \in { 1, 2 } : size % a = 0 }

\* fn bytes_to_opaque_array<T>(arr: &[u8]) -> &[T], for size_of::<T>() > 0 and
\* bytes at an address that is addr modulo align_of::<T>(): the outcomes.
\* from_raw_parts on a pointer that is not aligned for T is undefined
\* behaviour: a build with debug assertions aborts, another yields the values.
bytes_to_opaque_array(size, align, addr, endian, bytes) ==
  { [ abort |-> FALSE, vals |-> bytes_to_opaque_array_values(size, endian, bytes) ] }
  \cup (IF addr % align = 0 THEN { } ELSE { [ abort |-> TRUE, vals |-> << >> ] })

SeqsUpTo(S, n) == UNION { [ 1..k -> S ] : k \in 0..n }

KIdle ==
  /\ caller = "none"
  /\ pc = "idle"
  /\ input = NoInput
  /\ KERNEL = 0
  /\ shader_binary = NoShader
  /\ live = {}
  /\ fut = "none"
  /\ suspended = FALSE
  /\ suspensions = << >>
  /\ src_len = Zero
  /\ readback_buffer = NoBuffer
  /\ storage_buffer = NoBuffer
  /\ encoder = << >>
  /\ submitted = << >>
  /\ executed = 0
  /\ workgroups = << >>
  /\ polls = 0
  /\ data = NoData
  /\ result = NoResult
  /\ ret = "running"
  /\ stdout = << >>
  /\ log = << >>

\* A typed slice to upload, which is aligned for T, or raw bytes to read back,
\* at any address.
ConvInit ==
  /\ KIdle
  /\ \E size \in ConvSizes, endian \in Endians :
       \E align \in Aligns(size) :
         \/ \E arr \in SeqsUpTo(ElemValues(size), MaxArr) :
              conv = [ stage |-> "arr", origin |-> "arr", size |-> size,
                       align |-> align, addr |-> 0, endian |-> endian,
                       arr |-> arr, bytes |-> << >>, back |-> << >> ]
         \/ \E bytes \in SeqsUpTo(ByteValues, MaxRaw), addr \in 0..(align - 1) :
              conv = [ stage |-> "raw", origin |-> "raw", size |-> size,
                       align |-> align, addr |-> addr, endian |-> endian,
                       arr |-> << >>, bytes |-> bytes, back |-> << >> ]

\* opaque_array_to_bytes(arr): the bytes are the memory of arr, at its address.
ConvToBytes ==
  /\ conv.stage = "arr"
  /\ conv' = [ conv EXCEPT !.stage = "bytes",
                 !.bytes = opaque_array_to_bytes(conv.size, conv.endian, conv.arr) ]
  /\ UNCHANGED kvars

\* bytes_to_opaque_array::<T>(bytes); the division, evaluated before the call
\* of from_raw_parts, panics for a zero-sized T.
ConvFromBytes ==
  /\ conv.stage \in { "bytes", "raw" }
  /\ IF conv.size = 0
       THEN conv' = [ conv EXCEPT !.stage = "panic" ]
       ELSE \E out \in bytes_to_opaque_array(conv.size, conv.align, conv.addr,
                                             conv.endian, conv.bytes) :
              conv' = IF out.abort
                        THEN [ conv EXCEPT !.stage = "ub_abort" ]
                        ELSE [ conv EXCEPT
                                 !.stage = IF conv.stage = "bytes" THEN "back" ELSE "rawback",
                                 !.back = out.vals ]
  /\ UNCHANGED kvars

ConvNext == ConvToBytes \/ ConvFromBytes

ConvSpec == ConvInit /\ [][ConvNext]_vars

\* ================================================================ properties
\* The first position of a step in the log, or 0.
Pos(tag) ==
  IF \E i \in DOMAIN log : log[i] = tag
    THEN CHOOSE i \in DOMAIN log : log[i] = tag /\ \A j \in 1..(i - 1) : log[j] # tag
    ELSE 0

Done(tag) == Pos(tag) > 0

Count(tag) == Cardinality({ i \in DOMAIN log : log[i] = tag })

\* b was performed only after a.
Before(a, b) == Done(b) => (Done(a) /\ Pos(a) < Pos(b))

Terminal == { "aborted", "returned", "exited" }
Returned == { "returned", "main_match", "exited" }

ErrorLine == [ text |-> "Error executing kernel", elems |-> Zero ]

\* C1: when the map request resolves to an error, execute_kernel returns None:
\* it does not abort, nothing was read or unmapped, the submit and the map
\* request are not repeated, the run is never stuck, and main prints
\* "Error executing kernel" and exits. None is returned for no other reason,
\* and a run that has ended has exactly one of abort, None and Some.
C1_MapErrorReturnsNone ==
  /\ ret \in { "running", "abort", "None", "Some" }
  /\ (pc \in Returned) <=> (ret \in { "Some", "None" })
  /\ (pc = "aborted") <=> (ret = "abort")
  /\ readback_buffer.map = "failed" =>
       /\ ret \in { "running", "None" }
       /\ Count("submit") = 1 /\ Len(submitted) = 1
       /\ Count("map_async") = 1
       /\ Count("poll") = 1
       /\ pc \notin Terminal => ENABLED Next
       /\ pc \in Terminal => ret = "None"
       /\ pc = "exited" => stdout = << ErrorLine >>
  /\ ret = "None" => readback_buffer.map = "failed"

C1_Witness ==
  /\ caller = "main"
  /\ pc = "exited"
  /\ ret = "None"
  /\ readback_buffer.map = "failed"
  /\ stdout = << ErrorLine >>

SetupFailed ==
  /\ log # << >>
  /\ log[Len(log)] \in { AdapterPanic, DevicePanic }

SetupSteps == { "load_kernel", "build_data", "instance_new", "request_adapter",
                "adapter", "request_device" }

\* C2: a request_adapter that yields no adapter, or a request_device that
\* fails, aborts the run at that step: the step that consumes the failed
\* request is the panic, after it nothing further happens, no later step of
\* execute_kernel was performed, and neither Some nor None is returned.
C2_SetupFailureAborts ==
  /\ [](SetupFailed =>
          /\ pc = "aborted" /\ ret = "abort"
          /\ ~ENABLED Next
          /\ \A i \in 1..(Len(log) - 1) : log[i] \in SetupSteps
          /\ live = {}
          /\ src_len = Zero
          /\ readback_buffer = NoBuffer /\ storage_buffer = NoBuffer
          /\ encoder = << >> /\ submitted = << >> /\ executed = 0
          /\ workgroups = << >> /\ polls = 0
          /\ data = NoData /\ result = NoResult
          /\ stdout = << >>)
  /\ [][(pc \in { "await_adapter", "await_device" } /\ fut = "err" /\ pc' # pc)
          => (pc' = "aborted" /\ ret' = "abort" /\ SetupFailed')]_vars

C2_Witness ==
  /\ caller = "main"
  /\ pc = "aborted"
  /\ log[Len(log)] = DevicePanic
  /\ Done("adapter")

\* C7: a run of main that does not abort prints exactly one line when it
\* exits: the result line, with the returned vector, after Some, the error
\* line after None; nothing is printed before that, and an aborted run has
\* printed nothing.
C7_ExactlyOneLine ==
  caller = "main" =>
    /\ Len(stdout) <= 1
    /\ pc # "exited" => stdout = << >>
    /\ ret = "abort" => stdout = << >>
    /\ pc = "main_match" => ENABLED MainPrint
    /\ pc = "exited" =>
         /\ Len(stdout) = 1
         /\ ret \in { "Some", "None" }
         /\ ret = "Some" => stdout[1] = [ text |-> "Execution result: ", elems |-> result.len ]
         /\ ret = "None" => stdout[1] = ErrorLine

C7_Witness ==
  /\ caller = "main"
  /\ pc = "exited"
  /\ ret = "Some"
  /\ stdout = << [ text |-> "Execution result: ", elems |-> U(MainLen) ] >>

\* C10: the mapped view exists only while the readback buffer is mapped after
\* a successful map request; before Some is returned the data was copied into
\* the owned vector, then the view released, then the buffer unmapped; after a
\* failed map request the mapped range is never obtained and unmap never called.
C10_MappedReadOnlyAfterOk ==
  /\ data.state = "live" => readback_buffer.map = "mapped"
  /\ Done("get_mapped_range") => (Done("await_map") /\ readback_buffer.map # "failed")
  /\ Before("await_map", "get_mapped_range")
  /\ Before("get_mapped_range", "to_owned")
  /\ Before("to_owned", "drop_data")
  /\ Before("drop_data", "unmap")
  /\ result.some <=> Done("to_owned")
  /\ Done("drop_data") => data.state = "dropped"
  /\ data.state = "dropped" =>
       \/ Done("drop_data")
       \/ (ret = "abort" /\ log[Len(log)] = DividePanic /\ ~Done("unmap"))
  /\ Done("unmap") => (data.state = "dropped" /\ readback_buffer.map = "unmapped")
  /\ ret = "Some" =>
       /\ Done("unmap") /\ Pos("unmap") < Pos("return")
       /\ result.some /\ data.state = "dropped" /\ readback_buffer.map = "unmapped"
  /\ readback_buffer.map = "failed" =>
       /\ data = NoData
       /\ result = NoResult
       /\ ~Done("get_mapped_range") /\ ~Done("unmap")

C10_Witness ==
  /\ ret = "Some"
  /\ data.state = "dropped"
  /\ readback_buffer.map = "unmapped"
  /\ "await_map" \in { suspensions[i] : i \in DOMAIN suspensions }
PhaseOf(tag) ==
  CASE tag = "load_kernel" -> 1
    [] tag \in { "instance_new", "request_adapter", "adapter", "request_device",
                 "device", "drop_instance" } -> 2
    [] tag \in { "readback_buffer", "storage_buffer" } -> 3
    [] tag \in { "bind_group_layout", "pipeline_layout", "compute_pipeline",
                 "bind_group" } -> 4
    [] tag \in { "encoder", "dispatch", "copy" } -> 5
    [] tag = "submit" -> 6
    [] tag \in { "map_async", "poll", "await_map" } -> 7
    [] tag \in { "get_mapped_range", "to_owned", "drop_data", "unmap" } -> 8
    [] tag = "return" -> 9
    [] OTHER -> 0

Phases == 1..9

\* C3 as stated: the phases load, acquire, buffers, bind group and pipeline,
\* encode, submit, poll/await, read, return come in that order, and a run that
\* returns has performed every one of them.
C3_Original ==
  (caller = "main" /\ ret # "abort") =>
    /\ \A i, j \in DOMAIN log :
         (i < j /\ PhaseOf(log[i]) # 0 /\ PhaseOf(log[j]) # 0)
           => PhaseOf(log[i]) <= PhaseOf(log[j])
    /\ ret \in { "Some", "None" } =>
         \A ph \in Phases : \E i \in DOMAIN log : PhaseOf(log[i]) = ph

MainSteps == << "load_kernel", "build_data" >>

KernelSteps ==
  << "instance_new", "request_adapter", "adapter", "request_device", "device",
     "drop_instance", "shader_module", "src", "bind_group_layout",
     "pipeline_layout", "compute_pipeline", "readback_buffer", "storage_buffer",
     "bind_group", "encoder", "dispatch", "copy", "submit", "map_async", "poll",
     "await_map" >>

ReadSteps == << "get_mapped_range", "to_owned", "drop_data", "unmap" >>

IsPrefix(a, b) == Len(a) <= Len(b) /\ \A i \in DOMAIN a : a[i] = b[i]

OrderOf(tail) == (IF caller = "main" THEN MainSteps ELSE << >>) \o KernelSteps \o tail

\* C3, amended: a run that does not abort performs its steps in one fixed
\* order, each once: load kernel blob, build the input, acquire device and
\* queue, create the shader module, the bind group layout, the pipeline layout
\* and the compute pipeline, then the readback and the storage buffer, then the
\* bind group, encode dispatch then copy, submit, request the map, poll, await;
\* then, only after a successful map, read the mapped memory, release and
\* unmap; then return. After a failed map the read steps are skipped.
C3_FixedOrder ==
  ret # "abort" =>
    /\ \/ IsPrefix(log, OrderOf(ReadSteps \o << "return" >>))
       \/ IsPrefix(log, OrderOf(<< "return" >>))
    /\ ret = "Some" => log = OrderOf(ReadSteps \o << "return" >>)
    /\ ret = "None" => log = OrderOf(<< "return" >>)
    /\ Done("get_mapped_range") => readback_buffer.map # "failed"
    /\ (Done("return") /\ ~Done("get_mapped_range")) => readback_buffer.map = "failed"

C3_Witness ==
  /\ caller = "main"
  /\ pc = "exited"
  /\ ret = "Some"
  /\ Pos("compute_pipeline") < Pos("readback_buffer")
  /\ Pos("storage_buffer") < Pos("bind_group")

\* C4 as stated: execute_kernel yields to the executor at the wait for the
\* map and nowhere else, and does so exactly once in a run.
C4_Original ==
  /\ suspended => pc = "await_map"
  /\ ret \in { "Some", "None" } => Len(suspensions) = 1

AwaitRank(site) ==
  CASE site = "await_adapter" -> 1
    [] site = "await_device" -> 2
    [] site = "await_map" -> 3
    [] OTHER -> 0

\* C4, amended: execute_kernel can yield to the executor only at its three
\* await points, the adapter request, the device request and the map future,
\* which it passes in that order; the wait for the map is the last of them and
\* comes after the poll, in which the host blocks without yielding. A run may
\* suspend at any of the three, or at none.
C4_AwaitPoints ==
  /\ suspended => (pc \in AwaitPcs /\ fut # "none")
  /\ suspended => (suspensions # << >> /\ suspensions[Len(suspensions)] = pc)
  /\ \A i \in DOMAIN suspensions : suspensions[i] \in AwaitPcs
  /\ \A i, j \in DOMAIN suspensions :
       i < j => AwaitRank(suspensions[i]) <= AwaitRank(suspensions[j])
  /\ \A i \in DOMAIN suspensions :
       /\ suspensions[i] = "await_adapter" => Done("request_adapter")
       /\ suspensions[i] = "await_device" => (Done("adapter") /\ Done("request_device"))
       /\ suspensions[i] = "await_map" => (Done("device") /\ Done("poll") /\ polls = 1)
  /\ pc \notin AwaitPcs => ~suspended
  /\ (pc \notin AwaitPcs /\ pc \notin Terminal /\ pc # "poll") => ENABLED Host
  /\ pc = "poll" => ENABLED Next

C4_Witness ==
  /\ ret = "Some"
  /\ suspensions = << "await_adapter", "await_device", "await_map" >>

\* The order of the submit, the map request, the poll and the await.
C5_Order ==
  /\ Before("submit", "map_async")
  /\ Before("map_async", "poll")
  /\ Before("poll", "await_map")
  /\ readback_buffer.map \in { "pending", "mapped", "failed" } => Len(submitted) = 1
  /\ pc = "await_map" => (polls = 1 /\ Done("poll") /\ executed = Len(submitted))
  /\ Done("poll") => executed = Len(submitted)

\* C5 as stated: the map is requested after the submit, the poll comes between
\* the map request and the await, and once the map was requested
\* execute_kernel eventually returns Some or None.
C5_Original ==
  /\ []C5_Order
  /\ Done("map_async") ~> (ret \in { "Some", "None" })

\* C5, amended: the map is requested after the submit, the poll comes between
\* the map request and the await and returns only once the submitted work is
\* done, and once the map was requested the run eventually ends: with Some or
\* None for an element type of non-zero size; for a zero-sized element type
\* with None after a failed map and, after a successful one, with the abort of
\* the division by size_of::<T>() in bytes_to_opaque_array.
C5_MapEventuallyResolves ==
  /\ []C5_Order
  /\ []((Done("map_async") /\ ret = "abort") =>
          (input.size = 0 /\ readback_buffer.map = "mapped" /\ log[Len(log)] = DividePanic))
  /\ [](ret = "Some" => input.size >= 1)
  /\ Done("map_async") ~> (ret \in { "Some", "None", "abort" })

C5_Witness ==
  /\ ret = "Some"
  /\ polls = 1
  /\ suspensions # << >>
  /\ suspensions[Len(suspensions)] = "await_map"

CopyCommands == { c \in { encoder[i] : i \in DOMAIN encoder } \cup
                        UNION { { submitted[k][i] : i \in DOMAIN submitted[k] } : k \in DOMAIN submitted } :
                    c.op = "copy" }

DispatchCommands == { c \in { encoder[i] : i \in DOMAIN encoder } \cup
                            UNION { { submitted[k][i] : i \in DOMAIN submitted[k] } : k \in DOMAIN submitted } :
                        c.op = "dispatch" }

\* The low 32 bits of a usize whose low 32 bits are below 2^31.
Low32(a) == a[1] + a[2] * Base

\* C8: the dispatch is (len as u32) / 64 workgroups on x and one on y and z:
\* none for fewer than 64 elements, the remainder dropped, the bits of the
\* length above 32 ignored, one workgroup for main's 64 elements; the device
\* runs that dispatch once; and whatever the count, the buffers hold
\* size_of::<T>() * len bytes and a returned vector has len elements.
C8_DispatchCount ==
  /\ Done("dispatch") => Cardinality(DispatchCommands) = 1
  /\ \A c \in DispatchCommands :
       /\ c.y = 1 /\ c.z = 1
       /\ FitsInt(c.x)
       /\ ToInt(c.x) = Low32(input.len) \div WorkgroupDivisor
       /\ FitsU32(input.len) =>
            /\ Leq(MulSmall(c.x, WorkgroupDivisor), input.len)
            /\ ~Leq(MulSmall(U(ToInt(c.x) + 1), WorkgroupDivisor), input.len)
            /\ ToInt(input.len) < WorkgroupDivisor => c.x = Zero
       /\ input = MainInput => c.x = U(1)
       /\ \A w \in DOMAIN workgroups : workgroups[w] = [ x |-> c.x, y |-> 1, z |-> 1 ]
  /\ Len(workgroups) = executed
  /\ (input.size >= 1 /\ Done("storage_buffer")) =>
       /\ DivSmall(readback_buffer.size, input.size) = input.len
       /\ DivSmall(storage_buffer.size, input.size) = input.len
  /\ ret = "Some" => result.len = input.len

C8_Witness ==
  /\ ret = "Some"
  /\ input.len = Above32(2 * WorkgroupDivisor + 1)
  /\ workgroups = << [ x |-> U(2), y |-> 1, z |-> 1 ] >>

\* C9: for an element type of non-zero size the storage buffer, the readback
\* buffer and the copy all have size_of::<T>() * len bytes, the copy is from
\* offset 0 to offset 0, the device fills the whole readback buffer, and a
\* returned vector has exactly len elements.
C9_BufferSizes ==
  input.size >= 1 =>
    /\ Done("src") => src_len = MulSmall(input.len, input.size)
    /\ Done("readback_buffer") => readback_buffer.size = MulSmall(input.len, input.size)
    /\ Done("storage_buffer") =>
         /\ storage_buffer.size = MulSmall(input.len, input.size)
         /\ storage_buffer.filled = storage_buffer.size
    /\ Done("copy") => Cardinality(CopyCommands) = 1
    /\ \A c \in CopyCommands :
         /\ c.size = MulSmall(input.len, input.size)
         /\ c.src_offset = 0 /\ c.dst_offset = 0
    /\ executed = 1 => readback_buffer.filled = readback_buffer.size
    /\ data.state # "none" => data.len = MulSmall(input.len, input.size)
    /\ result.some => result.len = input.len
    /\ ret = "Some" => (result.some /\ result.len = input.len)

C9_Witness ==
  /\ ret = "Some"
  /\ input.size = SizeOfTestVec
  /\ input.len = U(WorkgroupDivisor + 1)
  /\ readback_buffer.size = U(SizeOfTestVec * (WorkgroupDivisor + 1))

\* C6: for an element type of non-zero size opaque_array_to_bytes yields
\* size_of::<T>() * len bytes, and bytes_to_opaque_array of those bytes yields
\* len elements equal to the slice element by element; neither validates: raw
\* bytes of any length are accepted and give len / size_of::<T>() elements, the
\* trailing bytes dropped. The division by a zero size panics, and a build
\* with debug assertions may abort on raw bytes at an address not aligned for
\* T, which the helper does not check; the bytes of a typed slice are aligned.
C6_RoundTrip ==
  /\ (conv.stage = "panic") <=> (conv.size = 0 /\ conv.stage \notin { "arr", "raw", "bytes" })
  /\ conv.stage = "ub_abort" =>
       (conv.origin = "raw" /\ conv.size >= 1 /\ conv.addr % conv.align # 0)
  /\ (conv.origin = "arr" /\ conv.size >= 1) => conv.stage \in { "arr", "bytes", "back" }
  /\ conv.stage \in { "bytes", "back" } =>
       /\ Len(conv.bytes) = conv.size * Len(conv.arr)
       /\ \A i \in DOMAIN conv.bytes : conv.bytes[i] \in 0..255
  /\ conv.stage = "back" =>
       /\ Len(conv.back) = Len(conv.arr)
       /\ \A i \in DOMAIN conv.arr : conv.back[i] = conv.arr[i]
  /\ conv.stage = "rawback" =>
       /\ Len(conv.back) = Len(conv.bytes) \div conv.size
       /\ opaque_array_to_bytes(conv.size, conv.endian, conv.back)
            = SubSeq(conv.bytes, 1, conv.size * (Len(conv.bytes) \div conv.size))

C6_Witness ==
  /\ conv.stage = "back"
  /\ conv.size = 3
  /\ Len(conv.arr) = MaxArr
  /\ conv.arr[1] = Pattern(3)
  /\ conv.back = conv.arr
  /\ conv.bytes[1] # conv.bytes[3]
====
